---- MODULE Spec2Model ----
(***************************************************************************)
(* Process supervision of the Minecraft server child process.              *)
(*                                                                         *)
(* Two supervisors are modelled, each from its source:                     *)
(*   impl = "ms" : class MinecraftServer        (src/server_manager.py)    *)
(*   impl = "ap" : module-level functions       (src/admin_panel.py)       *)
(* A behaviour runs one of them (chosen in Init).  A single controller     *)
(* thread calls the operations; one reader thread is launched per spawned  *)
(* child; the children emit output lines and exit on their own schedule.   *)
(* Steps of a thread are the statements of the source between which        *)
(* another thread can run; a condition is evaluated in one step.           *)
(***************************************************************************)
EXTENDS Integers, Sequences, FiniteSets

(* ------------------------------ bounds --------------------------------- *)
\* A behaviour is explored in one of two scopes (chosen in Init): "lifecycle"
\* spawns several children that write little, "capture" spawns few children
\* that write more lines than the output buffer holds, "input" spawns few
\* children that may stop reading their stdin or close it.
\* children spawned in one behaviour of the lifecycle scope
MaxGen == 2
\* lines one child writes in the lifecycle scope
LifeEmit == 1
\* children spawned in one behaviour of the capture scope
CaptureGen == 1
\* lines one child writes in the capture scope
MaxEmit == 3
\* MinecraftServer.max_console_lines (1000 in the source), scaled down
max_console_lines == 2
\* the literal 100 of read_server_output (admin_panel), scaled down
OUTPUT_BUFFER_CAP == 2
\* max_wait_time of MinecraftServer.start (60 in the source), scaled down
max_wait_time == 2
\* largest value of the timeout argument of stop() tried (default 30)
MaxTimeout == 1
\* range(10) of stop_server's graceful wait, scaled down
AP_STOP_POLLS == 1
\* commands the stdin pipe of a child holds unread (64 KiB on Linux), scaled down
PipeCap == 3
\* largest value of the lines argument of get_console_output tried (default 50)
MaxLines == 3

Gens == 1..MaxGen
None == 0
Timeouts == 0..MaxTimeout
\* operator commands tried as the argument of send_command
NL == "\\n"
Commands == { <<"say">>, <<"say", NL>> }

(* ------------------------------ lines ---------------------------------- *)
\* A line is a sequence of tokens; " " is whitespace, the other tokens are
\* non-blank text.  The terminating newline is implicit.
SP == " "
DONE == "Done"
HELP == "For help, type"

SentinelLine == <<DONE, SP, HELP>>
\* what a child may write: any of these in the capture scope
EmitLines == { <<SP>>, <<SP, "x">>, SentinelLine }
\* and in the lifecycle scope
LifeLines == { <<SP, "x">>, SentinelLine }

RECURSIVE LStrip(_)
LStrip(s) == IF s # <<>> /\ Head(s) = SP THEN LStrip(Tail(s)) ELSE s

RECURSIVE RStrip(_)
RStrip(s) ==
    IF s # <<>> /\ s[Len(s)] = SP THEN RStrip(SubSeq(s, 1, Len(s) - 1)) ELSE s

\* str.strip()
Strip(s) == RStrip(LStrip(s))

\* the `in` operator on a line, for a token
Contains(line, tok) == \E i \in 1..Len(line) : line[i] = tok

\* server_manager.py:125
IsReadyLine(line) == Contains(line, DONE) /\ Contains(line, HELP)

\* server_manager.py:124-127, the scan of console_log
LogShowsReady(log) == \E i \in 1..Len(log) : IsReadyLine(log[i])

LastN(n, s) == IF Len(s) <= n THEN s ELSE SubSeq(s, Len(s) - n + 1, Len(s))

\* the Python slice s[i:], i of either sign
SliceFrom(s, i) ==
    LET first == IF i < 0
                 THEN (IF Len(s) + i < 0 THEN 0 ELSE Len(s) + i)
                 ELSE (IF i > Len(s) THEN Len(s) ELSE i)
    IN SubSeq(s, first + 1, Len(s))

(* ---------------------------- files and paths -------------------------- *)
\* A path is a sequence of names; a file is a pair <<path, content>>.
CurDir == <<>>
\* the literal "world" of backup_world
WorldDir == <<"world">>
\* the restore_dir argument of restore_backup
RestoreDir == <<"restore">>
\* paths of files tried inside the world directory, and file contents tried
WorldPaths == { <<"level">>, <<"region", "r0">>, <<"region", "r1">> }
Contents == { "c1", "c2" }

IsPrefix(a, p) == Len(a) <= Len(p) /\ SubSeq(p, 1, Len(a)) = a

\* os.path.join(dir, rel)
Join(dir, rel) == dir \o rel

\* os.path.relpath(path, start), both relative to the working directory
RelPath(path, start) ==
    IF IsPrefix(start, path)
    THEN SubSeq(path, Len(start) + 1, Len(path))
    ELSE [i \in 1..Len(start) |-> ".."] \o path

\* os.walk(dir): the files below dir
Walk(files, dir) == { f \in files : IsPrefix(dir, f[1]) }

NoWorld == [exists |-> FALSE, files |-> {}]
NoArchive == [made |-> FALSE, entries |-> {}]
NoTarget == [done |-> FALSE, files |-> {}]

\* the world directories tried: missing, or holding any of the files tried
Worlds ==
    {NoWorld} \cup
    { [exists |-> TRUE,
       files |-> { <<Join(WorldDir, q), c[q]>> : q \in P }] :
         <<P, c>> \in { <<P, c>> \in (SUBSET WorldPaths) \X [WorldPaths -> Contents] : TRUE } }

(* ------------------------------ players -------------------------------- *)
\* A player name is a sequence of characters.
LowerChar(c) == CASE c = "A" -> "a" [] c = "B" -> "b" [] OTHER -> c

\* str.lower()
Lower(name) == [i \in 1..Len(name) |-> LowerChar(name[i])]

\* the player names tried
PlayerNames == { <<"a">>, <<"A">>, <<"B">> }

\* the entries the add operations build, with their default arguments
WhitelistEntry(name) == [name |-> name, uuid |-> ""]
BanEntry(name) ==
    [name |-> name, created |-> "now", source |-> "Server",
     expires |-> "forever", reason |-> "Banned by an operator"]
OpEntry(name) == [name |-> name, level |-> 4, bypassesPlayerLimit |-> FALSE]

\* the names of the stored lists tried at the start, in their order: no two
\* equal ignoring case
StoredNames ==
    {<<>>} \cup { <<n>> : n \in PlayerNames }
           \cup { x \in PlayerNames \X PlayerNames : Lower(x[1]) # Lower(x[2]) }

NoLists == [whitelist |-> <<>>, banned |-> <<>>, ops |-> <<>>]

VARIABLES
    impl,                  \* which supervisor this behaviour runs
    scope,                 \* which bounds this behaviour is explored under
    \* --- the operating system: children and their pipes
    ngen,                  \* children spawned so far
    alive,                 \* alive[g]: child g has not exited
    emitted,               \* emitted[g]: the lines child g wrote, in order
    nread,                 \* nread[g]: lines already taken from g's stdout
    stdin_open,            \* stdin_open[g]: child g has not closed its stdin
    unread,                \* unread[g]: commands written to g and not yet read by it
    \* --- MinecraftServer fields
    process,               \* self.process (None or a child)
    is_running,            \* self.is_running
    console_log,           \* self.console_log
    \* --- admin_panel globals
    server_process,        \* server_process (None or a child)
    server_output_buffer,  \* server_output_buffer
    \* --- reader threads, one per spawned child
    rpc,                   \* rpc[g]: position of the reader launched with g
    rstream,               \* rstream[g]: child whose stdout it reads
    rline,                 \* rline[g]: line read and not yet appended
    clean,                 \* clean[g]: no earlier reader was active at launch
    hist,                  \* lines appended to the output buffer since the last spawn
    sseq,                  \* what the stop() in progress has done so far, in order
    pfiles,                \* PlayerManager: the lists stored in the three JSON files
    \* --- the file system
    world,                 \* the server directory: whether "world" exists, its files
    archive,               \* the backup archive: whether it was written, its entries
    target,                \* the restore directory: whether extracted into, its files
    \* --- the controller thread
    cpc,                   \* position inside the current operation
    ci,                    \* loop counter of the current wait loop
    ctimeout,              \* timeout argument of the stop() in progress
    crestart,              \* the operation in progress is restart()
    cstopok,               \* restart(): what its call of stop() returned
    csuccess,              \* stop(): what its send_command("stop") returned
    cret,                  \* what the step just taken returned to the caller
    io                     \* I/O performed by the step just taken

cvars == <<cpc, ci, ctimeout, crestart, cstopok, csuccess>>
osvars == <<ngen, alive, emitted, nread>>
invars == <<stdin_open, unread>>
fsvars == <<world, archive, target>>
msvars == <<process, is_running, console_log>>
apvars == <<server_process, server_output_buffer>>
rvars == <<rpc, rstream, rline, clean>>
vars == <<impl, scope, sseq, pfiles, fsvars, osvars, invars, msvars, apvars, rvars, hist, cvars, cret, io>>

\* io: what the last step did to a child (kind), to which child, with which text
NoIO == [kind |-> "none", to |-> None, data |-> <<>>]
IO(k, g, d) == [kind |-> k, to |-> g, data |-> d]
\* cret: operation, returned value, the return statement taken, polls done;
\* for an operation that takes a count and returns lines, these two
NoRet == [op |-> "none", val |-> FALSE, path |-> "none", n |-> 0,
          arg |-> 0, out |-> <<>>]
Ret(o, v, p, k) == [op |-> o, val |-> v, path |-> p, n |-> k,
                    arg |-> 0, out |-> <<>>]
RetArg(o, v, p, a) == [op |-> o, val |-> v, path |-> p, n |-> 0,
                       arg |-> a, out |-> <<>>]
RetLines(o, a, lines) == [op |-> o, val |-> TRUE, path |-> "returned", n |-> 0,
                          arg |-> a, out |-> lines]

\* unread part of child g's output stream
Pipe(g) == SubSeq(emitted[g], nread[g] + 1, Len(emitted[g]))

\* Popen.poll() is None
PollIsNone(g) == alive[g]

ReaderActive(g) == rpc[g] \notin {"none", "done"}

\* a step that returns nothing to the caller and performs no I/O on a child
Quiet == cret' = NoRet /\ io' = NoIO

GenBound == IF scope = "lifecycle" THEN MaxGen ELSE CaptureGen
EmitBound == IF scope = "capture" THEN MaxEmit ELSE LifeEmit
LinesInScope == IF scope = "capture" THEN EmitLines ELSE LifeLines

InitState ==
    /\ impl \in {"ms", "ap"}
    /\ ngen = 0
    /\ alive = [g \in Gens |-> FALSE]
    /\ emitted = [g \in Gens |-> <<>>]
    /\ nread = [g \in Gens |-> 0]
    /\ stdin_open = [g \in Gens |-> TRUE]
    /\ unread = [g \in Gens |-> 0]
    /\ process = None
    /\ is_running = FALSE
    /\ console_log = <<>>
    /\ server_process = None
    /\ server_output_buffer = <<>>
    /\ rpc = [g \in Gens |-> "none"]
    /\ rstream = [g \in Gens |-> None]
    /\ rline = [g \in Gens |-> <<>>]
    /\ clean = [g \in Gens |-> FALSE]
    /\ hist = <<>>
    /\ sseq = <<>>
    /\ archive = NoArchive
    /\ target = NoTarget
    /\ cpc = "idle"
    /\ ci = 0
    /\ ctimeout = 0
    /\ crestart = FALSE
    /\ cstopok = FALSE
    /\ csuccess = FALSE
    /\ cret = NoRet
    /\ io = NoIO

Init == InitState /\ scope = "lifecycle" /\ world = NoWorld /\ pfiles = NoLists
InitCapture == InitState /\ scope = "capture" /\ world = NoWorld /\ pfiles = NoLists
InitInput == InitState /\ scope = "input" /\ world = NoWorld /\ pfiles = NoLists
\* the backup scope: a MinecraftServer that was never started, any world
InitBackup ==
    InitState /\ scope = "backup" /\ impl = "ms" /\ world \in Worlds /\ pfiles = NoLists
\* the players scope: the three files hold any lists without duplicates
InitPlayers ==
    /\ InitState /\ scope = "players" /\ impl = "ms" /\ world = NoWorld
    /\ pfiles \in { [whitelist |-> [i \in 1..Len(w) |-> WhitelistEntry(w[i])],
                     banned |-> [i \in 1..Len(b) |-> BanEntry(b[i])],
                     ops |-> [i \in 1..Len(o) |-> OpEntry(o[i])]] :
                        w \in StoredNames, b \in StoredNames, o \in StoredNames }

(* ----------------------------- the children ---------------------------- *)
\* The child writes one more line to its combined stdout/stderr.
ChildEmit(g) ==
    /\ alive[g]
    /\ Len(emitted[g]) < EmitBound
    /\ \E l \in LinesInScope : emitted' = [emitted EXCEPT ![g] = Append(@, l)]
    /\ Quiet
    /\ UNCHANGED <<impl, scope, pfiles, sseq, fsvars, invars, hist, ngen, alive, nread, msvars, apvars, rvars, cvars>>

\* The child exits: on its own, obeying "stop", or from a signal it received.
\* Its end of the stdin pipe goes with it.
ChildExit(g) ==
    /\ alive[g]
    /\ alive' = [alive EXCEPT ![g] = FALSE]
    /\ stdin_open' = [stdin_open EXCEPT ![g] = FALSE]
    /\ unread' = [unread EXCEPT ![g] = 0]
    /\ Quiet
    /\ UNCHANGED <<impl, scope, pfiles, sseq, fsvars, hist, ngen, emitted, nread, msvars, apvars, rvars, cvars>>

\* The child reads one command from its stdin.
ChildReadInput(g) ==
    /\ alive[g]
    /\ unread[g] > 0
    /\ unread' = [unread EXCEPT ![g] = @ - 1]
    /\ Quiet
    /\ UNCHANGED <<impl, scope, pfiles, sseq, fsvars, stdin_open, hist, osvars, msvars, apvars, rvars, cvars>>

\* The child closes its stdin and keeps running.
ChildCloseStdin(g) ==
    /\ alive[g]
    /\ stdin_open[g]
    /\ stdin_open' = [stdin_open EXCEPT ![g] = FALSE]
    /\ unread' = [unread EXCEPT ![g] = 0]
    /\ Quiet
    /\ UNCHANGED <<impl, scope, pfiles, sseq, fsvars, hist, osvars, msvars, apvars, rvars, cvars>>

(* ------------------ helpers shared by both supervisors ----------------- *)
\* the controller returns from the operation in progress
CRet(o, v, p) ==
    /\ cpc' = "idle"
    /\ cret' = Ret(o, v, p, ci)
    /\ ci' = 0
    /\ ctimeout' = 0
    /\ crestart' = FALSE
    /\ cstopok' = FALSE
    /\ csuccess' = FALSE

\* the controller moves on inside the operation in progress
Goto(pc, i, t) ==
    /\ cpc' = pc
    /\ ci' = i
    /\ ctimeout' = t
    /\ cret' = NoRet
    /\ UNCHANGED <<crestart, cstopok, csuccess>>

\* stop() moves on after its send_command("stop") returned ok
GotoSent(pc, ok) ==
    /\ cpc' = pc
    /\ ci' = 0
    /\ ctimeout' = ctimeout
    /\ cret' = NoRet
    /\ csuccess' = ok
    /\ UNCHANGED <<crestart, cstopok>>

\* one more entry of the record of the stop() in progress, if it happened
Noted(seq, happened, what) == IF happened THEN Append(seq, what) ELSE seq

\* stop() returns: to the caller, or into restart() when restart() called it
StopRet(v, p) ==
    IF crestart
    THEN /\ cpc' = "restart_mid"
         /\ cret' = Ret("stop", v, p, ci)
         /\ ci' = 0
         /\ ctimeout' = 0
         /\ crestart' = TRUE
         /\ cstopok' = v
         /\ csuccess' = FALSE
    ELSE CRet("stop", v, p)

\* subprocess.Popen succeeded: child g exists, its reader thread is launched
Spawn(g, firstpc) ==
    /\ g = ngen + 1
    /\ g <= GenBound
    /\ ngen' = g
    /\ alive' = [alive EXCEPT ![g] = TRUE]
    /\ rpc' = [rpc EXCEPT ![g] = firstpc]
    /\ clean' = [clean EXCEPT ![g] = \A r \in Gens : ~ReaderActive(r)]
    /\ UNCHANGED <<emitted, nread, rstream, rline>>

\* a write to child g's stdin succeeds: g lives and has its stdin open
WriteOk(g) == alive[g] /\ stdin_open[g]

\* a write to child g's stdin does not block: it fails at once (no reader
\* is left), or the pipe has room
CanWrite(g) == ~WriteOk(g) \/ unread[g] < PipeCap

\* stdin.write(command + "\n"); stdin.flush() on child g
WriteIO(g, cmd) ==
    IF WriteOk(g) THEN IO("write", g, cmd \o <<NL>>)
    ELSE IO("write_failed", g, cmd \o <<NL>>)

\* what the write does to the pipe: it waits for room, then one more
\* command is in it
PipeWrite(g) ==
    /\ CanWrite(g)
    /\ unread' = IF WriteOk(g) /\ scope = "input"
                 THEN [unread EXCEPT ![g] = @ + 1]
                 ELSE unread
    /\ UNCHANGED stdin_open

(* ============== MinecraftServer (src/server_manager.py) ================ *)
\* the guard without its is_running half
MS_NotRunning_HandleOnly == process = None

\* the guard `not self.is_running or not self.process` (lines 156, 203, 260)
MS_NotRunning == ~is_running \/ process = None

\* the trim dropping the newest line instead of the oldest
MS_TrimLog_DropNewest(log) ==
    IF Len(log) > max_console_lines THEN SubSeq(log, 1, Len(log) - 1) ELSE log

\* lines 226-227: drop the oldest line when the log is over its capacity
MS_TrimLog(log) == IF Len(log) > max_console_lines THEN Tail(log) ELSE log

(* ---- _capture_output, the reader thread (lines 217-238) ---- *)
\* line 220: the while condition
MS_ReaderCond(r) ==
    /\ impl = "ms"
    /\ rpc[r] = "cond"
    /\ IF is_running /\ process # None /\ PollIsNone(process)
       THEN /\ rpc' = [rpc EXCEPT ![r] = "read"]
            /\ rstream' = [rstream EXCEPT ![r] = process]
       ELSE /\ rpc' = [rpc EXCEPT ![r] = "exit"]
            /\ UNCHANGED rstream
    /\ Quiet
    /\ UNCHANGED <<impl, scope, pfiles, sseq, fsvars, invars, hist, osvars, msvars, apvars, rline, clean, cvars>>

\* line 221: readline() returns a line, or '' at end of stream
MS_ReaderRead(r) ==
    /\ impl = "ms"
    /\ rpc[r] = "read"
    /\ LET g == rstream[r] IN
       \/ /\ Pipe(g) # <<>>
          /\ rline' = [rline EXCEPT ![r] = Head(Pipe(g))]
          /\ nread' = [nread EXCEPT ![g] = @ + 1]
          /\ rpc' = [rpc EXCEPT ![r] = "append"]
       \/ /\ Pipe(g) = <<>>
          /\ ~alive[g]
          /\ rpc' = [rpc EXCEPT ![r] = "cond"]
          /\ UNCHANGED <<rline, nread>>
    /\ rstream' = [rstream EXCEPT ![r] = None]
    /\ Quiet
    /\ UNCHANGED <<impl, scope, pfiles, sseq, fsvars, invars, hist, ngen, alive, emitted, msvars, apvars, clean, cvars>>

\* line 221 raises (the bytes read do not decode): lines 236-238
MS_ReaderReadError(r) ==
    /\ impl = "ms"
    /\ rpc[r] = "read"
    /\ Pipe(rstream[r]) # <<>>
    /\ nread' = [nread EXCEPT ![rstream[r]] = @ + 1]
    /\ rpc' = [rpc EXCEPT ![r] = "exit"]
    /\ rstream' = [rstream EXCEPT ![r] = None]
    /\ Quiet
    /\ UNCHANGED <<impl, scope, pfiles, sseq, fsvars, invars, hist, ngen, alive, emitted, msvars, apvars, rline, clean, cvars>>

\* line 224: console_log.append(line.strip())
MS_ReaderAppend(r) ==
    /\ impl = "ms"
    /\ rpc[r] = "append"
    /\ console_log' = Append(console_log, Strip(rline[r]))
    /\ hist' = Append(hist, Strip(rline[r]))
    /\ rline' = [rline EXCEPT ![r] = <<>>]
    /\ rpc' = [rpc EXCEPT ![r] = "trim"]
    /\ Quiet
    /\ UNCHANGED <<impl, scope, pfiles, sseq, fsvars, invars, osvars, process, is_running, apvars, rstream, clean, cvars>>

\* lines 226-227
MS_ReaderTrim(r) ==
    /\ impl = "ms"
    /\ rpc[r] = "trim"
    /\ console_log' = MS_TrimLog(console_log)
    /\ rpc' = [rpc EXCEPT ![r] = "cond"]
    /\ Quiet
    /\ UNCHANGED <<impl, scope, pfiles, sseq, fsvars, invars, hist, osvars, process, is_running, apvars, rstream, rline, clean, cvars>>

\* the end of _capture_output without the assignment of line 233 (238)
MS_ReaderExit_KeepsFlag(r) ==
    /\ impl = "ms"
    /\ rpc[r] = "exit"
    /\ rpc' = [rpc EXCEPT ![r] = "done"]
    /\ Quiet
    /\ UNCHANGED <<impl, scope, pfiles, sseq, fsvars, invars, hist, osvars, msvars, apvars, rstream, rline, clean, cvars>>

\* line 233 (and line 238 after a read error): self.is_running = False
MS_ReaderExit(r) ==
    /\ impl = "ms"
    /\ rpc[r] = "exit"
    /\ is_running' = FALSE
    /\ rpc' = [rpc EXCEPT ![r] = "done"]
    /\ Quiet
    /\ UNCHANGED <<impl, scope, pfiles, sseq, fsvars, invars, hist, osvars, process, console_log, apvars, rstream, rline, clean, cvars>>

(* ---- start (lines 70-144) ---- *)
\* start() without its early return (lines 77-79 dropped)
MS_StartBody_NoEarlyReturn ==
    \/ /\ Spawn(ngen + 1, "cond")
       /\ process' = ngen + 1
       /\ is_running' = TRUE
       /\ Goto("start_wait", 0, 0)
       /\ io' = IO("spawn", ngen + 1, <<>>)
       /\ hist' = <<>>
       /\ UNCHANGED console_log
    \/ /\ is_running' = FALSE
       /\ CRet("start", FALSE, "spawn_failed")
       /\ io' = NoIO
       /\ UNCHANGED <<osvars, process, console_log, rvars, hist>>

\* lines 77-110: the early return, or Popen and the launch of the reader
MS_StartBody ==
    IF is_running
    THEN /\ CRet("start", TRUE, "already")
         /\ io' = NoIO
         /\ UNCHANGED <<osvars, msvars, rvars, hist>>
    ELSE \/ /\ Spawn(ngen + 1, "cond")
            /\ process' = ngen + 1
            /\ is_running' = TRUE
            /\ Goto("start_wait", 0, 0)
            /\ io' = IO("spawn", ngen + 1, <<>>)
            /\ hist' = <<>>
            /\ UNCHANGED console_log
         \/ \* Popen raises: lines 141-144
            /\ is_running' = FALSE
            /\ CRet("start", FALSE, "spawn_failed")
            /\ io' = NoIO
            /\ UNCHANGED <<osvars, process, console_log, rvars, hist>>

MS_Start ==
    /\ impl = "ms"
    /\ cpc = "idle"
    /\ MS_StartBody
    /\ UNCHANGED <<impl, scope, pfiles, sseq, fsvars, invars, apvars>>

\* the readiness loop treating the exhausted budget as a failure of start()
MS_StartPoll_HardTimeout ==
    /\ impl = "ms"
    /\ cpc = "start_wait"
    /\ IF ci < max_wait_time
       THEN /\ IF ~is_running
               THEN CRet("start", FALSE, "stopped")
               ELSE IF LogShowsReady(console_log)
                    THEN CRet("start", TRUE, "ready")
                    ELSE Goto("start_wait", ci + 1, 0)
            /\ UNCHANGED is_running
       ELSE /\ CRet("start", FALSE, "timeout")
            /\ is_running' = FALSE
    /\ io' = NoIO
    /\ UNCHANGED <<impl, scope, pfiles, sseq, fsvars, invars, hist, osvars, process, console_log, apvars, rvars>>

\* lines 118-139: one iteration of the readiness loop, or the code after it
MS_StartPoll ==
    /\ impl = "ms"
    /\ cpc = "start_wait"
    /\ IF ci < max_wait_time
       THEN IF ~is_running
            THEN CRet("start", FALSE, "stopped")
            ELSE IF LogShowsReady(console_log)
                 THEN CRet("start", TRUE, "ready")
                 ELSE Goto("start_wait", ci + 1, 0)
       ELSE CRet("start", TRUE, "timeout")
    /\ io' = NoIO
    /\ UNCHANGED <<impl, scope, pfiles, sseq, fsvars, invars, hist, osvars, msvars, apvars, rvars>>

(* ---- send_command (lines 193-215) ---- *)
MS_SendIO(cmd) == IF MS_NotRunning THEN NoIO ELSE WriteIO(process, cmd)

MS_SendPipe == IF MS_NotRunning THEN UNCHANGED invars ELSE PipeWrite(process)

\* what send_command returns
MS_SendOk == ~MS_NotRunning /\ WriteOk(process)

MS_SendCommand ==
    /\ impl = "ms"
    /\ cpc = "idle"
    /\ \E cmd \in Commands :
          /\ io' = MS_SendIO(cmd)
          /\ IF MS_NotRunning
             THEN CRet("send_command", FALSE, "not_running")
             ELSE IF WriteOk(process)
                  THEN CRet("send_command", TRUE, "sent")
                  ELSE CRet("send_command", FALSE, "error")
    /\ MS_SendPipe
    /\ UNCHANGED <<impl, scope, pfiles, sseq, fsvars, hist, osvars, msvars, apvars, rvars>>

(* ---- is_server_running (lines 252-268) ---- *)
\* is_server_running() without the assignment of line 265
MS_IsServerRunning_NoCorrection ==
    /\ impl = "ms"
    /\ cpc = "idle"
    /\ IF MS_NotRunning
       THEN CRet("is_server_running", FALSE, "not_running")
       ELSE IF ~PollIsNone(process)
            THEN CRet("is_server_running", FALSE, "exited")
            ELSE CRet("is_server_running", TRUE, "alive")
    /\ io' = NoIO
    /\ UNCHANGED <<impl, scope, pfiles, sseq, fsvars, invars, hist, osvars, msvars, apvars, rvars>>

MS_IsServerRunning ==
    /\ impl = "ms"
    /\ cpc = "idle"
    /\ IF MS_NotRunning
       THEN /\ CRet("is_server_running", FALSE, "not_running")
            /\ UNCHANGED is_running
       ELSE IF ~PollIsNone(process)
            THEN /\ is_running' = FALSE
                 /\ CRet("is_server_running", FALSE, "exited")
            ELSE /\ CRet("is_server_running", TRUE, "alive")
                 /\ UNCHANGED is_running
    /\ io' = NoIO
    /\ UNCHANGED <<impl, scope, pfiles, sseq, fsvars, invars, hist, osvars, process, console_log, apvars, rvars>>

(* ---- get_console_output (lines 240-250) ---- *)
\* line 250: self.console_log[-lines:] if self.console_log else []
MS_ConsoleOutput(log, lines) == IF log # <<>> THEN SliceFrom(log, -lines) ELSE <<>>

MS_GetConsoleOutput ==
    /\ impl = "ms"
    /\ cpc = "idle"
    /\ \E lines \in 0..MaxLines :
          cret' = RetLines("get_console_output", lines,
                           MS_ConsoleOutput(console_log, lines))
    /\ io' = NoIO
    /\ UNCHANGED <<impl, scope, pfiles, sseq, fsvars, invars, hist, osvars, msvars, apvars, rvars, cvars>>

(* ---- stop (lines 146-191) ---- *)
\* lines 156-158: the early return, or entry into the shutdown sequence
MS_StopBody(t) ==
    IF MS_NotRunning
    THEN StopRet(TRUE, "not_running")
    ELSE Goto("stop_save", 0, t)

MS_Stop ==
    /\ impl = "ms"
    /\ cpc = "idle"
    /\ \E t \in Timeouts : MS_StopBody(t)
    /\ io' = NoIO
    /\ UNCHANGED <<impl, scope, pfiles, sseq, fsvars, invars, hist, osvars, msvars, apvars, rvars>>

\* lines 163-164: send_command("save-all"); time.sleep(2)
MS_StopSave ==
    /\ impl = "ms"
    /\ cpc = "stop_save"
    /\ io' = MS_SendIO(<<"save-all">>)
    /\ MS_SendPipe
    /\ sseq' = Noted(sseq, MS_SendIO(<<"save-all">>).kind = "write", "save")
    /\ Goto("stop_cmd", 0, ctimeout)
    /\ UNCHANGED <<impl, scope, pfiles, fsvars, hist, osvars, msvars, apvars, rvars>>

\* line 167: send_command("stop")
MS_StopCmd ==
    /\ impl = "ms"
    /\ cpc = "stop_cmd"
    /\ io' = MS_SendIO(<<"stop">>)
    /\ MS_SendPipe
    /\ sseq' = Noted(sseq, MS_SendIO(<<"stop">>).kind = "write", "stop")
    /\ GotoSent("stop_wait", MS_SendOk)
    /\ UNCHANGED <<impl, scope, pfiles, fsvars, hist, osvars, msvars, apvars, rvars>>

\* lines 170-175: one poll of the grace period
MS_StopWait ==
    /\ impl = "ms"
    /\ cpc = "stop_wait"
    /\ ci < ctimeout
    /\ IF ~PollIsNone(process)
       THEN /\ is_running' = FALSE
            /\ StopRet(TRUE, "exited")
            /\ sseq' = <<>>
       ELSE /\ Goto("stop_wait", ci + 1, ctimeout)
            /\ UNCHANGED is_running
            /\ sseq' = Append(sseq, "alive")
    /\ io' = NoIO
    /\ UNCHANGED <<impl, scope, pfiles, fsvars, invars, hist, osvars, process, console_log, apvars, rvars>>

\* lines 178-181: the grace period is over; terminate(), time.sleep(2)
MS_StopTerminate ==
    /\ impl = "ms"
    /\ cpc = "stop_wait"
    /\ ci = ctimeout
    /\ \/ /\ io' = IO("terminate", process, <<>>)
          /\ Goto("stop_kill", ci, ctimeout)
          /\ sseq' = Append(sseq, "terminate")
       \/ \* terminate() raises: lines 189-191
          /\ io' = IO("signal_failed", process, <<>>)
          /\ StopRet(FALSE, "error")
          /\ sseq' = <<>>
    /\ UNCHANGED <<impl, scope, pfiles, fsvars, invars, hist, osvars, msvars, apvars, rvars>>

\* the end of stop() with kill() sent without the poll of line 181
MS_StopKill_NoPoll ==
    /\ impl = "ms"
    /\ cpc = "stop_kill"
    /\ io' = IO("kill", process, <<>>)
    /\ is_running' = FALSE
    /\ StopRet(TRUE, "killed")
    /\ sseq' = <<>>
    /\ UNCHANGED <<impl, scope, pfiles, fsvars, invars, hist, osvars, process, console_log, apvars, rvars>>

\* lines 182-187: kill() if still alive, is_running = False, return True
MS_StopKill ==
    /\ impl = "ms"
    /\ cpc = "stop_kill"
    /\ IF PollIsNone(process)
       THEN \/ /\ io' = IO("kill", process, <<>>)
               /\ is_running' = FALSE
               /\ StopRet(TRUE, "killed")
            \/ \* kill() raises: lines 189-191
               /\ io' = IO("signal_failed", process, <<>>)
               /\ StopRet(FALSE, "error")
               /\ UNCHANGED is_running
       ELSE /\ io' = NoIO
            /\ is_running' = FALSE
            /\ StopRet(TRUE, "terminated")
    /\ sseq' = <<>>
    /\ UNCHANGED <<impl, scope, pfiles, fsvars, invars, hist, osvars, process, console_log, apvars, rvars>>

(* ---- restart (lines 270-291) ---- *)
\* line 283: restart() calls stop(timeout)
MS_Restart ==
    /\ impl = "ms"
    /\ cpc = "idle"
    /\ \E t \in Timeouts :
          IF MS_NotRunning
          THEN /\ cpc' = "restart_mid"
               /\ cret' = Ret("stop", TRUE, "not_running", 0)
               /\ cstopok' = TRUE
               /\ UNCHANGED <<ci, ctimeout>>
          ELSE /\ cpc' = "stop_save"
               /\ ctimeout' = t
               /\ ci' = 0
               /\ cret' = NoRet
               /\ UNCHANGED cstopok
    /\ crestart' = TRUE
    /\ io' = NoIO
    /\ UNCHANGED <<impl, scope, pfiles, sseq, fsvars, invars, hist, osvars, msvars, apvars, rvars, csuccess>>

\* lines 283-291: stop() has returned; give up, or sleep(5) and start()
MS_RestartMid ==
    /\ impl = "ms"
    /\ cpc = "restart_mid"
    /\ IF cstopok
       THEN MS_StartBody
       ELSE /\ CRet("restart", FALSE, "stop_failed")
            /\ io' = NoIO
            /\ UNCHANGED <<osvars, msvars, rvars, hist>>
    /\ UNCHANGED <<impl, scope, pfiles, sseq, fsvars, invars, apvars>>

MS_Reader(r) ==
    \/ MS_ReaderCond(r)
    \/ MS_ReaderRead(r)
    \/ MS_ReaderReadError(r)
    \/ MS_ReaderAppend(r)
    \/ MS_ReaderTrim(r)
    \/ MS_ReaderExit(r)

MS_Controller ==
    \/ MS_Start
    \/ MS_StartPoll
    \/ MS_SendCommand
    \/ MS_IsServerRunning
    \/ MS_Stop
    \/ MS_StopSave
    \/ MS_StopCmd
    \/ MS_StopWait
    \/ MS_StopTerminate
    \/ MS_StopKill
    \/ MS_Restart
    \/ MS_RestartMid

(* ================= admin panel (src/admin_panel.py) ==================== *)
\* is_server_running() without the poll of line 262
AP_IsRunning_NoPoll == server_process # None

\* is_server_running(), lines 257-262
AP_IsRunning == server_process # None /\ PollIsNone(server_process)

\* the guard of stop_server, line 304
AP_NotRunning == ~AP_IsRunning \/ server_process = None

\* lines 371-372: make room for one line when the buffer is full
AP_Evict(buf) == IF Len(buf) >= OUTPUT_BUFFER_CAP THEN Tail(buf) ELSE buf

\* Popen.terminate()/kill(): a signal reaches the child only while it lives
SignalIO(kind, g) ==
    IF g # None /\ alive[g] THEN IO(kind, g, <<>>) ELSE NoIO

(* ---- read_server_output, the reader thread (lines 356-393) ---- *)
\* lines 360-364: return if there is no process, else bind its stdout
AP_ReaderBegin(r) ==
    /\ impl = "ap"
    /\ rpc[r] = "begin"
    /\ IF server_process = None
       THEN /\ rpc' = [rpc EXCEPT ![r] = "done"]
            /\ UNCHANGED rstream
       ELSE /\ rpc' = [rpc EXCEPT ![r] = "read"]
            /\ rstream' = [rstream EXCEPT ![r] = server_process]
    /\ Quiet
    /\ UNCHANGED <<impl, scope, pfiles, sseq, fsvars, invars, hist, osvars, msvars, apvars, rline, clean, cvars>>

\* lines 364-369: the next line (stripped; skipped when blank), or end of stream
AP_ReaderRead(r) ==
    /\ impl = "ap"
    /\ rpc[r] = "read"
    /\ LET g == rstream[r] IN
       \/ /\ Pipe(g) # <<>>
          /\ nread' = [nread EXCEPT ![g] = @ + 1]
          /\ IF Strip(Head(Pipe(g))) # <<>>
             THEN /\ rline' = [rline EXCEPT ![r] = Strip(Head(Pipe(g)))]
                  /\ rpc' = [rpc EXCEPT ![r] = "evict"]
             ELSE UNCHANGED <<rline, rpc>>
          /\ UNCHANGED rstream
       \/ /\ Pipe(g) = <<>>
          /\ ~alive[g]
          /\ rpc' = [rpc EXCEPT ![r] = "eof"]
          /\ rstream' = [rstream EXCEPT ![r] = None]
          /\ UNCHANGED <<rline, nread>>
    /\ Quiet
    /\ UNCHANGED <<impl, scope, pfiles, sseq, fsvars, invars, hist, ngen, alive, emitted, msvars, apvars, clean, cvars>>

\* readline raises (the bytes read do not decode): lines 386-393
AP_ReaderReadError(r) ==
    /\ impl = "ap"
    /\ rpc[r] = "read"
    /\ Pipe(rstream[r]) # <<>>
    /\ nread' = [nread EXCEPT ![rstream[r]] = @ + 1]
    /\ rpc' = [rpc EXCEPT ![r] = "eof"]
    /\ rstream' = [rstream EXCEPT ![r] = None]
    /\ Quiet
    /\ UNCHANGED <<impl, scope, pfiles, sseq, fsvars, invars, hist, ngen, alive, emitted, msvars, apvars, rline, clean, cvars>>

\* lines 371-372
AP_ReaderEvict(r) ==
    /\ impl = "ap"
    /\ rpc[r] = "evict"
    /\ server_output_buffer' = AP_Evict(server_output_buffer)
    /\ rpc' = [rpc EXCEPT ![r] = "append"]
    /\ Quiet
    /\ UNCHANGED <<impl, scope, pfiles, sseq, fsvars, invars, hist, osvars, msvars, server_process, rstream, rline, clean, cvars>>

\* line 373
AP_ReaderAppend(r) ==
    /\ impl = "ap"
    /\ rpc[r] = "append"
    /\ server_output_buffer' = Append(server_output_buffer, rline[r])
    /\ hist' = Append(hist, rline[r])
    /\ rline' = [rline EXCEPT ![r] = <<>>]
    /\ rpc' = [rpc EXCEPT ![r] = "read"]
    /\ Quiet
    /\ UNCHANGED <<impl, scope, pfiles, sseq, fsvars, invars, osvars, msvars, server_process, rstream, clean, cvars>>

\* lines 379-384 (388-392 after a read error): terminate the current process
AP_ReaderEof(r) ==
    /\ impl = "ap"
    /\ rpc[r] = "eof"
    /\ io' = SignalIO("terminate", server_process)
    /\ cret' = NoRet
    /\ rpc' = [rpc EXCEPT ![r] = "clear"]
    /\ UNCHANGED <<impl, scope, pfiles, sseq, fsvars, invars, hist, osvars, msvars, apvars, rstream, rline, clean, cvars>>

\* line 385 (393): server_process = None
AP_ReaderClear(r) ==
    /\ impl = "ap"
    /\ rpc[r] = "clear"
    /\ server_process' = None
    /\ rpc' = [rpc EXCEPT ![r] = "done"]
    /\ Quiet
    /\ UNCHANGED <<impl, scope, pfiles, sseq, fsvars, invars, hist, osvars, msvars, server_output_buffer, rstream, rline, clean, cvars>>

(* ---- start_server (lines 264-298) ---- *)
AP_StartBody ==
    IF AP_IsRunning
    THEN /\ CRet("start", TRUE, "already")
         /\ io' = NoIO
         /\ UNCHANGED <<osvars, apvars, rvars, hist>>
    ELSE \/ /\ Spawn(ngen + 1, "begin")
            /\ server_output_buffer' = <<>>
            /\ hist' = <<>>
            /\ server_process' = ngen + 1
            /\ CRet("start", TRUE, "started")
            /\ io' = IO("spawn", ngen + 1, <<>>)
         \/ \* Popen raises: lines 296-298
            /\ server_output_buffer' = <<>>
            /\ hist' = <<>>
            /\ CRet("start", FALSE, "spawn_failed")
            /\ io' = NoIO
            /\ UNCHANGED <<osvars, server_process, rvars>>

AP_Start ==
    /\ impl = "ap"
    /\ cpc = "idle"
    /\ AP_StartBody
    /\ UNCHANGED <<impl, scope, pfiles, sseq, fsvars, invars, msvars>>

(* ---- is_server_running as an operation of the menu ---- *)
AP_IsServerRunning ==
    /\ impl = "ap"
    /\ cpc = "idle"
    /\ CRet("is_server_running", AP_IsRunning,
            IF AP_IsRunning THEN "alive" ELSE "not_running")
    /\ io' = NoIO
    /\ UNCHANGED <<impl, scope, pfiles, sseq, fsvars, invars, hist, osvars, msvars, apvars, rvars>>

(* ---- send_command (lines 395-409) ---- *)
\* lines 399-401: the check
AP_SendCommand ==
    /\ impl = "ap"
    /\ cpc = "idle"
    /\ IF ~AP_IsRunning
       THEN CRet("send_command", FALSE, "not_running")
       ELSE Goto("ap_send_write", 0, 0)
    /\ io' = NoIO
    /\ UNCHANGED <<impl, scope, pfiles, sseq, fsvars, invars, hist, osvars, msvars, apvars, rvars>>

\* lines 403-409: write and flush; an exception gives False
AP_WriteIO(cmd) ==
    IF server_process = None THEN NoIO ELSE WriteIO(server_process, cmd)

AP_WriteOk == server_process # None /\ WriteOk(server_process)

AP_WritePipe ==
    IF server_process = None THEN UNCHANGED invars ELSE PipeWrite(server_process)

AP_SendWrite ==
    /\ impl = "ap"
    /\ cpc = "ap_send_write"
    /\ \E cmd \in Commands : io' = AP_WriteIO(cmd)
    /\ AP_WritePipe
    /\ IF AP_WriteOk
       THEN CRet("send_command", TRUE, "sent")
       ELSE CRet("send_command", FALSE, "error")
    /\ UNCHANGED <<impl, scope, pfiles, sseq, fsvars, hist, osvars, msvars, apvars, rvars>>

(* ---- stop_server (lines 300-348) ---- *)
\* lines 304-307: the early return, or entry into the shutdown sequence
AP_StopBody ==
    IF AP_NotRunning
    THEN /\ server_process' = None
         /\ StopRet(TRUE, "not_running")
    ELSE /\ Goto("ap_stop_send", 0, 0)
         /\ UNCHANGED server_process

AP_Stop ==
    /\ impl = "ap"
    /\ cpc = "idle"
    /\ AP_StopBody
    /\ io' = NoIO
    /\ UNCHANGED <<impl, scope, pfiles, sseq, fsvars, invars, hist, osvars, msvars, server_output_buffer, rvars>>

\* line 312: send_command("stop"), its check (lines 399-401)
AP_StopSend ==
    /\ impl = "ap"
    /\ cpc = "ap_stop_send"
    /\ IF ~AP_IsRunning
       THEN Goto("ap_stop_term", 0, 0)
       ELSE Goto("ap_stop_write", 0, 0)
    /\ io' = NoIO
    /\ UNCHANGED <<impl, scope, pfiles, sseq, fsvars, invars, hist, osvars, msvars, apvars, rvars>>

\* line 312: send_command("stop"), its write (lines 403-409); line 314
AP_StopWrite ==
    /\ impl = "ap"
    /\ cpc = "ap_stop_write"
    /\ io' = AP_WriteIO(<<"stop">>)
    /\ AP_WritePipe
    /\ IF AP_WriteOk
       THEN GotoSent("ap_stop_wait", TRUE)
       ELSE GotoSent("ap_stop_term", FALSE)
    /\ UNCHANGED <<impl, scope, pfiles, sseq, fsvars, hist, osvars, msvars, apvars, rvars>>

\* lines 316-320: one poll of the graceful wait
AP_StopWait ==
    /\ impl = "ap"
    /\ cpc = "ap_stop_wait"
    /\ IF ci < AP_STOP_POLLS /\ AP_IsRunning
       THEN Goto("ap_stop_wait", ci + 1, 0)
       ELSE Goto("ap_stop_term", 0, 0)
    /\ io' = NoIO
    /\ UNCHANGED <<impl, scope, pfiles, sseq, fsvars, invars, hist, osvars, msvars, apvars, rvars>>

\* lines 324-327: terminate() if still running; else lines 337-339
AP_StopTerm ==
    /\ impl = "ap"
    /\ cpc = "ap_stop_term"
    /\ IF AP_IsRunning
       THEN /\ io' = IO("terminate", server_process, <<>>)
            /\ Goto("ap_stop_waitterm", 0, 0)
            /\ UNCHANGED server_process
       ELSE /\ io' = NoIO
            /\ server_process' = None
            /\ StopRet(TRUE, "stopped")
    /\ UNCHANGED <<impl, scope, pfiles, sseq, fsvars, invars, hist, osvars, msvars, server_output_buffer, rvars>>

\* lines 328-339: wait(timeout=5); kill() when it times out; return True
AP_StopWaitTerm ==
    /\ impl = "ap"
    /\ cpc = "ap_stop_waitterm"
    /\ IF AP_IsRunning
       THEN /\ io' = IO("kill", server_process, <<>>)
            /\ StopRet(TRUE, "killed")
       ELSE /\ io' = NoIO
            /\ StopRet(TRUE, "terminated")
    /\ server_process' = None
    /\ UNCHANGED <<impl, scope, pfiles, sseq, fsvars, invars, hist, osvars, msvars, server_output_buffer, rvars>>

(* ---- restart_server (lines 349-354) ---- *)
AP_Restart ==
    /\ impl = "ap"
    /\ cpc = "idle"
    /\ IF AP_NotRunning
       THEN /\ server_process' = None
            /\ cpc' = "restart_mid"
            /\ cret' = Ret("stop", TRUE, "not_running", 0)
            /\ cstopok' = TRUE
       ELSE /\ cpc' = "ap_stop_send"
            /\ cret' = NoRet
            /\ UNCHANGED <<server_process, cstopok>>
    /\ crestart' = TRUE
    /\ io' = NoIO
    /\ UNCHANGED <<impl, scope, pfiles, sseq, fsvars, invars, hist, osvars, msvars, server_output_buffer, rvars, ci, ctimeout, csuccess>>

\* lines 351-354: stop_server() has returned
AP_RestartMid ==
    /\ impl = "ap"
    /\ cpc = "restart_mid"
    /\ IF cstopok
       THEN AP_StartBody
       ELSE /\ CRet("restart", FALSE, "stop_failed")
            /\ io' = NoIO
            /\ UNCHANGED <<osvars, apvars, rvars, hist>>
    /\ UNCHANGED <<impl, scope, pfiles, sseq, fsvars, invars, msvars>>

AP_Reader(r) ==
    \/ AP_ReaderBegin(r)
    \/ AP_ReaderRead(r)
    \/ AP_ReaderReadError(r)
    \/ AP_ReaderEvict(r)
    \/ AP_ReaderAppend(r)
    \/ AP_ReaderEof(r)
    \/ AP_ReaderClear(r)

AP_Controller ==
    \/ AP_Start
    \/ AP_IsServerRunning
    \/ AP_SendCommand
    \/ AP_SendWrite
    \/ AP_Stop
    \/ AP_StopSend
    \/ AP_StopWrite
    \/ AP_StopWait
    \/ AP_StopTerm
    \/ AP_StopWaitTerm
    \/ AP_Restart
    \/ AP_RestartMid

Next ==
    \/ \E g \in Gens : ChildEmit(g)
    \/ \E g \in Gens : ChildExit(g)
    \/ \E r \in Gens : MS_Reader(r)
    \/ MS_Controller
    \/ \E r \in Gens : AP_Reader(r)
    \/ AP_Controller

(* ======================= backup and restore =========================== *)
\* zipf.write(filepath, os.path.relpath(filepath, start=".")) for every file
\* of os.walk("world") (server_manager.py:326-330)
BackupEntries(files) ==
    { <<RelPath(f[1], CurDir), f[2]>> : f \in Walk(files, WorldDir) }

\* zipf.extractall(restore_dir) (utils.py:293-294)
ExtractAll(entries, dir) == { <<Join(dir, e[1]), e[2]>> : e \in entries }

\* MinecraftServer.backup_world (server_manager.py:293-337)
MS_BackupWorld ==
    /\ impl = "ms"
    /\ cpc = "idle"
    /\ ~archive.made
    /\ IF ~world.exists
       THEN /\ CRet("backup_world", FALSE, "no_world")
            /\ io' = NoIO
            /\ UNCHANGED <<archive, invars>>
       ELSE /\ IF is_running
               THEN io' = MS_SendIO(<<"save-all">>) /\ MS_SendPipe
               ELSE io' = NoIO /\ UNCHANGED invars
            /\ \/ /\ archive' = [made |-> TRUE, entries |-> BackupEntries(world.files)]
                  /\ CRet("backup_world", TRUE, "archived")
               \/ \* writing the archive raises: lines 335-337
                  /\ UNCHANGED archive
                  /\ CRet("backup_world", FALSE, "error")
    /\ UNCHANGED <<impl, scope, pfiles, sseq, world, target, hist, osvars, msvars, apvars, rvars>>

\* utils.restore_backup (utils.py:271-301)
RestoreBackup ==
    /\ cpc = "idle"
    /\ ~target.done
    /\ IF ~archive.made
       THEN /\ CRet("restore_backup", FALSE, "no_archive")
            /\ UNCHANGED target
       ELSE \/ /\ target' = [done |-> TRUE, files |-> ExtractAll(archive.entries, RestoreDir)]
               /\ CRet("restore_backup", TRUE, "restored")
            \/ \* extraction raises part way: lines 299-301
               /\ \E part \in SUBSET archive.entries :
                     /\ part # archive.entries
                     /\ target' = [done |-> TRUE, files |-> ExtractAll(part, RestoreDir)]
               /\ CRet("restore_backup", FALSE, "error")
    /\ io' = NoIO
    /\ UNCHANGED <<impl, scope, pfiles, sseq, world, archive, hist, osvars, invars, msvars, apvars, rvars>>

NextBackup == MS_BackupWorld \/ RestoreBackup

SpecBackup == InitBackup /\ [][NextBackup]_vars

(* ============== PlayerManager (src/player_manager.py) ================== *)
\* the test of the add operations under exact comparison of the names
PM_NamePresent_ExactCase(list, name) ==
    \E i \in 1..Len(list) : list[i].name = name

\* `player.get('name').lower() == player_name.lower()` for some entry
PM_NamePresent(list, name) ==
    \E i \in 1..Len(list) : Lower(list[i].name) = Lower(name)

\* the index of the first entry with that name, for `del list[i]`
PM_FirstIndex(list, name) ==
    CHOOSE i \in 1..Len(list) :
        /\ Lower(list[i].name) = Lower(name)
        /\ \A j \in 1..(i - 1) : Lower(list[j].name) # Lower(name)

PM_Delete(list, i) == SubSeq(list, 1, i - 1) \o SubSeq(list, i + 1, Len(list))

\* _save_json_file (lines 70-87) writes data to file f and returns True; or
\* it fails and returns False, the file untouched (open failed) or truncated
\* (the dump failed), which _load_json_file (lines 51-68) then reads as []
PM_Save(f, data, op, name) ==
    \/ /\ pfiles' = [pfiles EXCEPT ![f] = data]
       /\ cret' = RetArg(op, TRUE, "saved", name)
    \/ /\ pfiles' \in {pfiles, [pfiles EXCEPT ![f] = <<>>]}
       /\ cret' = RetArg(op, FALSE, "save_failed", name)

\* add_to_whitelist (100-129), ban_player (168-204), add_op (318-349)
PM_Add(f, entry, op) ==
    IF PM_NamePresent(pfiles[f], entry.name)
    THEN /\ cret' = RetArg(op, FALSE, "already", entry.name)
         /\ UNCHANGED pfiles
    ELSE PM_Save(f, Append(pfiles[f], entry), op, entry.name)

\* remove_from_whitelist (131-155), unban_player (206-230), remove_op (351-375)
PM_Remove(f, name, op) ==
    IF PM_NamePresent(pfiles[f], name)
    THEN PM_Save(f, PM_Delete(pfiles[f], PM_FirstIndex(pfiles[f], name)), op, name)
    ELSE /\ cret' = RetArg(op, FALSE, "absent", name)
         /\ UNCHANGED pfiles

\* what a PlayerManager operation leaves alone
PM_Frame ==
    /\ io' = NoIO
    /\ UNCHANGED <<impl, scope, sseq, fsvars, invars, hist, osvars, msvars, apvars, rvars, cvars>>

add_to_whitelist(name) ==
    PM_Add("whitelist", WhitelistEntry(name), "add_to_whitelist") /\ PM_Frame

remove_from_whitelist(name) ==
    PM_Remove("whitelist", name, "remove_from_whitelist") /\ PM_Frame

ban_player(name) == PM_Add("banned", BanEntry(name), "ban_player") /\ PM_Frame

unban_player(name) == PM_Remove("banned", name, "unban_player") /\ PM_Frame

add_op(name) == PM_Add("ops", OpEntry(name), "add_op") /\ PM_Frame

remove_op(name) == PM_Remove("ops", name, "remove_op") /\ PM_Frame

NextPlayers ==
    \/ \E name \in PlayerNames : add_to_whitelist(name)
    \/ \E name \in PlayerNames : remove_from_whitelist(name)
    \/ \E name \in PlayerNames : ban_player(name)
    \/ \E name \in PlayerNames : unban_player(name)
    \/ \E name \in PlayerNames : add_op(name)
    \/ \E name \in PlayerNames : remove_op(name)

SpecPlayers == InitPlayers /\ [][NextPlayers]_vars

Spec == Init /\ [][Next]_vars
SpecCapture == InitCapture /\ [][Next]_vars

\* the input scope: the children also act on their stdin
NextInput ==
    \/ Next
    \/ \E g \in Gens : ChildReadInput(g)
    \/ \E g \in Gens : ChildCloseStdin(g)

SpecInput == InitInput /\ [][NextInput]_vars

\* every reader thread is scheduled fairly; the controller and the children
\* are not
SpecReaderFair ==
    Spec /\ \A r \in Gens : WF_vars(MS_Reader(r)) /\ WF_vars(AP_Reader(r))

\* the capture scope with the operator reading the console
NextConsole == Next \/ MS_GetConsoleOutput

SpecConsole == InitCapture /\ [][NextConsole]_vars

\* the controller thread is scheduled fairly; the children are not
SpecInputFair ==
    SpecInput /\ WF_vars(MS_Controller) /\ WF_vars(AP_Controller)

(* ======================= the claims, C1 .. C10 ========================= *)
\* the stored lifecycle is Running: is_running for MinecraftServer, a process
\* handle whose poll() is None for the admin panel
LifecycleRunning ==
    IF impl = "ms" THEN is_running /\ process # None
    ELSE server_process # None /\ alive[server_process]

\* the child the supervisor currently holds, if any, has not exited
CurrentChildAlive ==
    IF impl = "ms" THEN process # None /\ alive[process]
    ELSE server_process # None /\ alive[server_process]

\* this step is a call of start() (directly, or as the second half of restart())
StartCalled ==
    \/ MS_Start
    \/ AP_Start
    \/ (cstopok /\ (MS_RestartMid \/ AP_RestartMid))

\* this step is a call of stop() (directly, or as the first half of restart())
StopCalled == MS_Stop \/ MS_Restart \/ AP_Stop \/ AP_Restart

\* this step is a call of send_command() by the operator
SendCalled == MS_SendCommand \/ AP_SendCommand

LiveChildren == {g \in Gens : alive[g]}

\* C1: start() called while the lifecycle is Running returns success in that
\* step and spawns no child (both supervisors).
C1_StartIdempotent ==
    [][(StartCalled /\ LifecycleRunning) =>
         /\ cret' = Ret("start", TRUE, "already", 0)
         /\ cpc' = "idle"
         /\ ngen' = ngen
         /\ alive' = alive
         /\ io' = NoIO]_vars

\* C1 happens: start() was called on a running server whose child is alive
C1_Witness ==
    /\ cret.op = "start"
    /\ cret.path = "already"
    /\ CurrentChildAlive

\* C2 as stated: at most one spawned child is alive at any time.
C2_AtMostOneLiveChild == Cardinality(LiveChildren) <= 1

\* C3: stop() called when no child is running (MinecraftServer: is_running is
\* false; admin panel: no process handle, or its child has exited) returns
\* success in that step, writes nothing to a child and sends no signal.
C3_StopWhenStopped ==
    [][(StopCalled /\ ~LifecycleRunning) =>
         /\ cret' = Ret("stop", TRUE, "not_running", 0)
         /\ io' = NoIO
         /\ alive' = alive]_vars

\* C3 happens: stop() returned at once for a child that had exited on its own
C3_Witness ==
    /\ cret.op = "stop"
    /\ cret.path = "not_running"
    /\ ngen >= 1
    /\ LiveChildren = {}
    /\ ~crestart

\* C4 as stated: send_command() with no child, or with a child that has
\* exited, returns the not-running failure and attempts no write.
C4_NoWriteWhenChildGone ==
    [][(SendCalled /\ ~CurrentChildAlive) =>
         /\ cret' = Ret("send_command", FALSE, "not_running", 0)
         /\ io' = NoIO]_vars

\* C4 as amended: send_command() called when the stored lifecycle is not
\* Running returns the not-running failure and attempts no write; so do the
\* calls of send_command() that stop() makes.
C4_NoWriteWhenNotRunning ==
    [][/\ (SendCalled /\ ~LifecycleRunning) =>
            /\ cret' = Ret("send_command", FALSE, "not_running", 0)
            /\ io' = NoIO
       /\ ((MS_StopSave \/ MS_StopCmd \/ AP_StopSend) /\ ~LifecycleRunning) =>
            io' = NoIO]_vars

\* C4 happens: send_command() failed as not running after a child had existed
C4_Witness ==
    /\ cret.op = "send_command"
    /\ cret.path = "not_running"
    /\ ngen >= 1

\* C5 as stated: in every state the output buffer holds at most its capacity.
C5_BufferWithinCapacity ==
    /\ Len(console_log) <= max_console_lines
    /\ Len(server_output_buffer) <= OUTPUT_BUFFER_CAP

\* the output buffer of the supervisor that runs, and its capacity
Buffer == IF impl = "ms" THEN console_log ELSE server_output_buffer
Capacity == IF impl = "ms" THEN max_console_lines ELSE OUTPUT_BUFFER_CAP

RECURSIVE DropBlank(_)
DropBlank(s) ==
    IF s = <<>> THEN <<>>
    ELSE IF Head(s) = <<>> THEN DropBlank(Tail(s))
         ELSE <<Head(s)>> \o DropBlank(Tail(s))

\* what the reader stores of the lines a child wrote: each line stripped
\* (server_manager.py:224), blank lines skipped (admin_panel.py:368-369)
Stored(lines) ==
    LET st == [i \in 1..Len(lines) |-> Strip(lines[i])]
    IN IF impl = "ms" THEN st ELSE DropBlank(st)

\* reader r is the only reader at work: the latest launched, and launched
\* when no earlier reader was active
SoleReader(r) == r = ngen /\ clean[r]

\* reader r is not in the middle of storing a line
BetweenCaptures(r) ==
    IF impl = "ms" THEN rpc[r] # "trim" ELSE rpc[r] # "append"

\* C6: for the reader of one generation working alone, the lines captured
\* since the spawn are a contiguous run of the child's output in the order
\* the child wrote it, and once more lines than the capacity were captured
\* the buffer is exactly the last `capacity` of them, in that order.
C6_LastCapacityInOrder ==
    \A r \in Gens :
        (SoleReader(r) /\ BetweenCaptures(r)) =>
            /\ \E a \in 0..nread[r] : \E k \in a..nread[r] :
                   hist = Stored(SubSeq(emitted[r], a + 1, k))
            /\ Len(hist) > Capacity => Buffer = LastN(Capacity, hist)

\* C6 happens: more lines than the capacity were captured, the oldest is gone
C6_Witness ==
    /\ ngen >= 1
    /\ SoleReader(ngen)
    /\ BetweenCaptures(ngen)
    /\ Len(hist) > Capacity
    /\ Head(hist) # Head(Buffer)
    /\ Buffer = LastN(Capacity, hist)

\* C7 as stated: stop() returns success after a kill only once the child is
\* known to have exited.
C7_KillConfirmedBeforeReturn ==
    (cret.op = "stop" /\ cret.path = "killed") => ~alive[io.to]

\* C8 as stated: every poll of the readiness wait made after the reader
\* captured a sentinel line of this start's child, with the child alive and
\* the lifecycle Running, ends the wait with success.
C8_SentinelDetectedAtNextPoll ==
    [][(/\ MS_StartPoll
        /\ ci < max_wait_time
        /\ is_running
        /\ alive[process]
        /\ LogShowsReady(hist)) =>
           cret' = Ret("start", TRUE, "ready", ci)]_vars

\* C9 as stated: when start() returns with the lifecycle Running and its
\* child is alive and has written no sentinel line, it returns by the
\* timeout, after max_wait_time polls.
C9_GivesUpAfterExactBudget ==
    [][(/\ MS_StartPoll
        /\ cpc' = "idle"
        /\ is_running
        /\ alive[process]
        /\ ~LogShowsReady(emitted[process])) =>
           cret' = Ret("start", TRUE, "timeout", max_wait_time)]_vars

\* C10: when the readiness budget is used up without the sentinel having been
\* seen, start() returns success and leaves the lifecycle as it is: a
\* lifecycle that is Running stays Running, the process handle is kept.
C10_TimeoutIsSoft ==
    [][(MS_StartPoll /\ ci >= max_wait_time) =>
           /\ cret' = Ret("start", TRUE, "timeout", max_wait_time)
           /\ is_running' = is_running
           /\ process' = process
           /\ alive' = alive
           /\ io' = NoIO]_vars

\* C10 happens: start() returned by the timeout, the child alive, no sentinel
\* in the log, the lifecycle Running
C10_Witness ==
    /\ cret.op = "start"
    /\ cret.path = "timeout"
    /\ cret.val
    /\ is_running
    /\ alive[process]
    /\ ~LogShowsReady(console_log)

(* ======================= the claims, C11 .. C20 ======================== *)
\* the supervisor holds a process handle
HandleHeld ==
    IF impl = "ms" THEN process # None ELSE server_process # None

\* the stored lifecycle is Starting, Running or Stopping: is_running is true
\* from Popen to the end of stop() (MinecraftServer); the handle is set and
\* its poll() is None (admin panel)
LifecycleActive == IF impl = "ms" THEN is_running ELSE AP_IsRunning

\* C11 as stated: in the state in which stop() has just returned from a call
\* on a running server, the lifecycle is Stopped, no process handle is held
\* and no reader thread is active.
C11_StopReleasesEverything ==
    (cret.op = "stop" /\ cret.path # "not_running") =>
        /\ ~LifecycleActive
        /\ ~HandleHeld
        /\ \A r \in Gens : ~ReaderActive(r)

\* C12 as stated: a process handle is held exactly when the lifecycle is
\* Starting, Running or Stopping.
C12_HandleIffActive == HandleHeld <=> LifecycleActive

\* C13 as stated: when the stop() inside restart() has just returned after a
\* kill and the child it killed is still alive, restart() reports failure and
\* spawns nothing.
C13_NoRestartOverLiveChild ==
    [][(/\ MS_RestartMid \/ AP_RestartMid
        /\ cret.op = "stop"
        /\ cret.path = "killed"
        /\ alive[io.to]) =>
           /\ ngen' = ngen
           /\ cret'.op = "restart"
           /\ ~cret'.val]_vars

\* this step is a call of is_server_running()
IsRunningCalled == MS_IsServerRunning \/ AP_IsServerRunning

C15_SpawnFailureLeavesStopped ==
    [][(cret'.op = "start" /\ cret'.path = "spawn_failed") =>
         /\ ~cret'.val
         /\ ~LifecycleActive'
         /\ ~CurrentChildAlive'
         /\ rpc' = rpc
         /\ ngen' = ngen]_vars

\* C16 as stated: a send_command() whose write fails returns failure, and if
\* the child has exited the stored lifecycle is Stopped when it returns.
C16_BrokenPipeRechecksLifecycle ==
    [][(cret'.op = "send_command" /\ io'.kind = "write_failed") =>
         /\ ~cret'.val
         /\ ~alive'[io'.to] =>
                IF impl = "ms" THEN ~is_running' ELSE server_process' = None]_vars

\* C17 as stated: once the send_command("stop") of stop() has failed, no
\* poll of the grace period ends in another second of waiting.
C17_FailedStopWriteSkipsGrace ==
    [][((MS_StopWait \/ AP_StopWait) /\ ~csuccess) =>
           cpc' \notin {"stop_wait", "ap_stop_wait"}]_vars

\* C18 as stated: whatever the children do, an operation that the fairly
\* scheduled controller thread has begun returns.
C18_OperationsReturn == (cpc # "idle") ~> (cpc = "idle")

\* C19 as stated: the text that reaches the child's input stream ends in
\* exactly one newline.
C19_ExactlyOneNewline ==
    (io.kind = "write") =>
        /\ Len(io.data) >= 2
        /\ io.data[Len(io.data)] = NL
        /\ io.data[Len(io.data) - 1] # NL

\* the files of a directory, each by its path relative to the directory
FilesRelativeTo(files, dir) == { <<RelPath(f[1], dir), f[2]>> : f \in files }

\* C20 as stated: after backup_world() and a successful restore_backup() into
\* the empty directory D, D holds exactly the files of the world directory,
\* each at the path it has in the world directory and with its content.
C20_RoundTrip ==
    (cret.op = "restore_backup" /\ cret.val) =>
        FilesRelativeTo(target.files, RestoreDir)
            = FilesRelativeTo(world.files, WorldDir)

(* ======================= the claims, C21 .. C30 ======================== *)
\* C21 as stated: get_console_output(lines=n), n >= 0, returns the last
\* min(n, length) lines of the console log in their order, never more than n,
\* and leaves the console log as it is.
C21_LastLinesOfLog ==
    [][MS_GetConsoleOutput =>
         /\ cret'.out = LastN(cret'.arg, console_log)
         /\ Len(cret'.out) <= cret'.arg
         /\ console_log' = console_log]_vars

\* the reader threads blocked in, or about to call, readline() on child g's
\* output stream
ReadersOf(g) == {r \in Gens : rpc[r] = "read" /\ rstream[r] = g}

\* C22 as stated: at most one reader thread reads a given child's output
\* stream, and once a later child has been spawned no reader thread launched
\* for an earlier child is still active.
C22_OneReaderPerGeneration ==
    /\ \A g \in Gens : Cardinality(ReadersOf(g)) <= 1
    /\ \A r \in Gens : r < ngen => ~ReaderActive(r)

\* this step is taken by the reader thread launched with child r
ReaderStep(r) == MS_Reader(r) \/ AP_Reader(r)

\* C23 as stated: a step of a reader thread launched for a child earlier than
\* the latest leaves the running flag and the process handle as they are,
\* sends no terminate and leaves the output buffer as it is.
C23_ReaderScopedToGeneration ==
    [][\A r \in Gens :
          (ReaderStep(r) /\ r < ngen) =>
              /\ is_running' = is_running
              /\ server_process' = server_process
              /\ io'.kind # "terminate"
              /\ console_log' = console_log
              /\ server_output_buffer' = server_output_buffer]_vars

\* the stored lifecycle is Running, the child it names has exited, and the
\* controller is idle and has not just acted
ExitedUnnoticed ==
    /\ cpc = "idle"
    /\ cret.op = "none"
    /\ IF impl = "ms" THEN is_running /\ process # None /\ ~alive[process]
       ELSE server_process # None /\ ~alive[server_process]

\* the stored lifecycle is Stopped
LifecycleStopped == IF impl = "ms" THEN ~is_running ELSE server_process = None

\* the controller has issued an operation: it is inside one, or has just
\* returned from one
ControllerActed == cpc # "idle" \/ cret.op # "none"

\* C24: once the child has exited while the lifecycle is stored as Running,
\* with fairly scheduled reader threads the lifecycle becomes Stopped, unless
\* the controller issues an operation first.
C24_ExitDetected == ExitedUnnoticed ~> (LifecycleStopped \/ ControllerActed)

\* C24 happens: the child exited, its reader ran to its end, the lifecycle is
\* Stopped and the controller is idle
C24_Witness ==
    /\ ngen >= 1
    /\ ~alive[ngen]
    /\ rpc[ngen] = "done"
    /\ cpc = "idle"
    /\ cret.op = "none"
    /\ IF impl = "ms" THEN process = ngen /\ ~is_running
       ELSE server_process = None

\* C25 as stated: a start() that spawns a child leaves the captured-output
\* buffer empty, so no line captured from an earlier child is in it.
C25_StartEmptiesBuffer ==
    [][(StartCalled /\ io'.kind = "spawn") => Buffer' = <<>>]_vars

\* C26 as stated: once the lifecycle has left Starting/Running during the
\* readiness wait of MinecraftServer.start(), the next step of the wait ends
\* it and start() returns failure.
C26_WaitEndsWhenStopped ==
    [][(MS_StartPoll /\ ~is_running) =>
           /\ cpc' = "idle"
           /\ cret'.op = "start"
           /\ ~cret'.val]_vars

\* how many entries of seq are `what`
Count(seq, what) == Cardinality({i \in 1..Len(seq) : seq[i] = what})

\* C27: in MinecraftServer.stop() the stop command is written only after the
\* save command was written, and nothing else came before; terminate is sent
\* only after every poll of the grace period found the child alive, and
\* before any other signal; kill is sent only right after terminate, with the
\* child alive at the poll; a stop() whose poll finds the child exited has
\* sent no signal.
C27_StopOrder ==
    [][impl = "ms" =>
         /\ (MS_StopCmd /\ io'.kind = "write") => sseq = <<"save">>
         /\ io'.kind = "terminate" =>
                /\ MS_StopTerminate
                /\ Count(sseq, "alive") = ctimeout
                /\ Count(sseq, "terminate") = 0
                /\ \A i \in 1..Len(sseq) :
                       sseq[i] = "alive" => \A j \in i..Len(sseq) : sseq[j] = "alive"
         /\ io'.kind = "kill" =>
                /\ MS_StopKill
                /\ sseq[Len(sseq)] = "terminate"
                /\ alive[process]
                /\ cret'.path = "killed"
         /\ (cret'.op = "stop" /\ cret'.path = "exited") =>
                /\ Count(sseq, "terminate") = 0
                /\ ~alive[process]]_vars

\* C27 happens: a stop() with a grace period went through save, stop, the
\* polls, terminate and kill
C27_Witness ==
    /\ impl = "ms"
    /\ cret.op = "stop"
    /\ cret.path = "killed"
    /\ cret.n = MaxTimeout
    /\ MaxTimeout >= 1

\* C28 as stated: every line in the captured-output buffer is non-empty and
\* has no leading or trailing whitespace.
C28_StoredLinesTrimmedNonEmpty ==
    \A i \in 1..Len(Buffer) :
        /\ Buffer[i] # <<>>
        /\ Buffer[i] = Strip(Buffer[i])

\* this step takes the reader thread launched with child r out of its loop
LeavesLoop(r) ==
    /\ ReaderStep(r)
    /\ rpc[r] \in {"begin", "cond", "read"}
    /\ rpc'[r] \in {"exit", "eof", "done"}

\* C29 as stated: the reader thread of a child leaves its loop only when a
\* read fails or returns end of stream, so that no line the child wrote is
\* left unread: the child has exited and its output stream is empty.
C29_ReadsToEndOfStream ==
    [][\A r \in Gens :
          LeavesLoop(r) =>
              \/ MS_ReaderReadError(r)
              \/ AP_ReaderReadError(r)
              \/ (~alive[r] /\ Pipe(r) = <<>>)]_vars

\* no two entries of the list have names that are equal ignoring case
NoCaseDuplicates(list) ==
    \A i, j \in 1..Len(list) :
        Lower(list[i].name) = Lower(list[j].name) => i = j

\* the list holds an entry whose name equals name ignoring case
HasName(list, name) == \E i \in 1..Len(list) : Lower(list[i].name) = Lower(name)

====
